---- MODULE Spec2Model ----
(***************************************************************************)
(* Model of scripts/verify_repos.py: the per-repository verification       *)
(* pipeline (verify_repo), the driver loop and results payload (main),     *)
(* the badge store (write_badge) and the slug function                     *)
(* (normalize_repo_slug).                                                  *)
(*                                                                         *)
(* Strings are sequences of one-character strings, so that the regular     *)
(* expressions of normalize_repo_slug are modelled character by character. *)
(* External tools (git, python -m venv, pip, the cloned tree) are inputs:  *)
(* every call of run() returns exit code zero, returns a non-zero exit     *)
(* code, or raises (subprocess.run raises OSError when the child cannot be *)
(* spawned).  Writes into the badge directory and the results file are     *)
(* taken to succeed.                                                       *)
(***************************************************************************)
EXTENDS Integers, Sequences, FiniteSets, TLC

VARIABLES
    repos,       \* main: repos, the list returned by read_repo_list
    badges,      \* the badge directory: slug -> message of <slug>.json
    results,     \* main: results
    idx,         \* number of loop iterations that appended their result
    pc,          \* position of the single thread of control
    result,      \* main: result, the value returned by verify_repo
    exc,         \* the exception propagating out of verify_repo, if any
    workspaces,  \* the TemporaryDirectory trees that exist on disk
    calls,       \* per attempt, the stage and badge calls made so far
    payload,     \* the dictionary written to the results file
    exitCode,    \* value returned by main
    surl,        \* normalize_repo_slug: argument url
    sslug,       \* normalize_repo_slug: returned slug
    spc          \* position of the slug computation

vars == <<repos, badges, results, idx, pc, result, exc, workspaces, calls,
          payload, exitCode, surl, sslug, spc>>

mainVars == <<repos, badges, results, idx, pc, result, exc, workspaces, calls,
              payload, exitCode>>

slugVars == <<surl, sslug, spc>>

----------------------------------------------------------------------------
(* Bounds *)

MaxRepos == 2

MaxPieces == 5

----------------------------------------------------------------------------
(* Characters and strings *)

Letters ==
    {"a","b","c","d","e","f","g","h","i","j","k","l","m",
     "n","o","p","q","r","s","t","u","v","w","x","y","z",
     "A","B","C","D","E","F","G","H","I","J","K","L","M",
     "N","O","P","Q","R","S","T","U","V","W","X","Y","Z"}

Digits == {"0","1","2","3","4","5","6","7","8","9"}

\* the character class [A-Za-z0-9._-]
SlugChars == Letters \cup Digits \cup {".", "_", "-"}

\* the literal github\.com/ of the pattern
GithubComSlash == <<"g","i","t","h","u","b",".","c","o","m","/">>

\* the literal \.git of the pattern
DotGit == <<".","g","i","t">>

SetMin(S) == CHOOSE x \in S : \A y \in S : x <= y

SetMax(S) == CHOOSE x \in S : \A y \in S : x >= y

\* s has the literal lit at position i
HasAt(s, i, lit) ==
    /\ i >= 1
    /\ i + Len(lit) - 1 <= Len(s)
    /\ SubSeq(s, i, i + Len(lit) - 1) = lit

\* s[i..j] is a non-empty match of [^/]+
NoSlash(s, i, j) == i <= j /\ \A k \in i..j : s[k] # "/"

\* (?:\.git)?$ matches right after position r
TailOk(s, r) ==
    \/ HasAt(s, r + 1, DotGit) /\ r + Len(DotGit) = Len(s)
    \/ r = Len(s)

\* end positions of ([^/]+?) starting at b for which the rest matches
RepoEnds(s, b) == {r \in b..Len(s) : NoSlash(s, b, r) /\ TailOk(s, r)}

\* end positions of ([^/]+) starting at a for which the rest matches
OwnerEnds(s, a) ==
    {e \in a..Len(s) :
        NoSlash(s, a, e) /\ HasAt(s, e + 1, <<"/">>) /\ RepoEnds(s, e + 2) # {}}

\* start positions at which the whole pattern matches
MatchStarts(s) ==
    {i \in 1..Len(s) :
        HasAt(s, i, GithubComSlash) /\ OwnerEnds(s, i + Len(GithubComSlash)) # {}}

NoMatch == [found |-> FALSE, owner |-> <<>>, repo |-> <<>>]

\* a variant of the search whose repo group is greedy
re_search_greedy_repo(s) ==
    IF MatchStarts(s) = {} THEN NoMatch
    ELSE LET i == SetMin(MatchStarts(s))
             a == i + Len(GithubComSlash)
             e == SetMax(OwnerEnds(s, a))
             r == SetMax(RepoEnds(s, e + 2))
         IN  [found |-> TRUE, owner |-> SubSeq(s, a, e), repo |-> SubSeq(s, e + 2, r)]

\* re.search(r"github\.com/([^/]+)/([^/]+?)(?:\.git)?$", url): the leftmost
\* match, the owner group greedy, the repo group lazy
re_search(s) ==
    IF MatchStarts(s) = {} THEN NoMatch
    ELSE LET i == SetMin(MatchStarts(s))
             a == i + Len(GithubComSlash)
             e == SetMax(OwnerEnds(s, a))
             r == SetMin(RepoEnds(s, e + 2))
         IN  [found |-> TRUE, owner |-> SubSeq(s, a, e), repo |-> SubSeq(s, e + 2, r)]

\* last position of the run of characters outside the class that starts at i
RunEnd(s, i) ==
    SetMax({j \in i..Len(s) : \A k \in i..j : s[k] \notin SlugChars})

RECURSIVE re_sub_from(_, _)
\* re.sub(r"[^A-Za-z0-9._-]+", "_", url), from position i on
re_sub_from(s, i) ==
    IF i > Len(s) THEN <<>>
    ELSE IF s[i] \in SlugChars THEN <<s[i]>> \o re_sub_from(s, i + 1)
    ELSE <<"_">> \o re_sub_from(s, RunEnd(s, i) + 1)

normalize_repo_slug(url) ==
    LET match == re_search(url)
    IN  IF ~match.found THEN re_sub_from(url, 1)
        ELSE match.owner \o <<"_", "_">> \o match.repo

----------------------------------------------------------------------------
(* The slug computation on its own: a URL is assembled from pieces and     *)
(* normalize_repo_slug is applied to it.                                   *)

Pieces ==
    { GithubComSlash, <<"/">>, <<"a">>, DotGit, <<":">> }

IdleMain ==
    /\ repos = <<>>
    /\ badges = << >>
    /\ results = <<>>
    /\ idx = 0
    /\ pc = "idle"
    /\ result = <<>>
    /\ exc = "none"
    /\ workspaces = {}
    /\ calls = <<>>
    /\ payload = <<>>
    /\ exitCode = -1

InitSlug ==
    /\ IdleMain
    /\ surl = <<>>
    /\ sslug = <<>>
    /\ spc = 0

\* the caller extends the argument by one piece
AppendPiece ==
    /\ spc >= 0
    /\ spc < MaxPieces
    /\ \E p \in Pieces : surl' = surl \o p
    /\ spc' = spc + 1
    /\ UNCHANGED <<sslug, mainVars>>

\* slug = normalize_repo_slug(url)
Normalize ==
    /\ spc >= 0
    /\ sslug' = normalize_repo_slug(surl)
    /\ spc' = -1
    /\ UNCHANGED <<surl, mainVars>>

NextSlug == AppendPiece \/ Normalize

SlugSpec == InitSlug /\ [][NextSlug]_vars

----------------------------------------------------------------------------
(* The verification run: main and verify_repo *)

\* repository URLs the input list is drawn from: the two spellings of one
\* github repository, and a URL the pattern does not recognise
UrlPool ==
    { GithubComSlash \o <<"a", "/", "b">>,
      GithubComSlash \o <<"a", "/", "b">> \o DotGit,
      <<"a", "/", "b">> }

\* names of the badge files the run can touch
Slugs == {normalize_repo_slug(u) : u \in UrlPool}

\* content of a badge file: its "message", or absent
BadgeContent == {"absent", "verified", "failed"}

\* outcomes of one call of run(): exit code 0, another exit code, an exception
RunOutcomes == {"zero", "nonzero", "raise"}

SeqsUpTo(S, n) == UNION {[1..k -> S] : k \in 0..n}

NoResult == [url |-> <<>>, ok |-> FALSE, reason |-> "", badge_path |-> <<"None">>]

RepoResult(url, ok, reason, badge_path) ==
    [url |-> url, ok |-> ok, reason |-> reason, badge_path |-> badge_path]

\* a function's way out: a returned (ok, reason) pair or a raised exception
Returned(ok, reason) == [raised |-> FALSE, ok |-> ok, reason |-> reason]

Raised == [raised |-> TRUE, ok |-> FALSE, reason |-> ""]

ensure_readme(exists, readFails, hasInstall, hasUsage) ==
    IF ~exists THEN Returned(FALSE, "missing README.md")
    ELSE IF readFails THEN Raised
    ELSE IF ~hasInstall \/ ~hasUsage
         THEN Returned(FALSE, "README.md must include install and usage")
    ELSE Returned(TRUE, "")

ensure_pyproject(exists) ==
    IF ~exists THEN Returned(FALSE, "missing pyproject.toml")
    ELSE Returned(TRUE, "")

create_venv(out) ==
    IF out = "raise" THEN Raised
    ELSE IF out # "zero" THEN Returned(FALSE, "venv creation failed")
    ELSE Returned(TRUE, "")

install_editable(pip, hasRequirements, req, edit) ==
    IF pip = "raise" THEN Raised
    ELSE IF pip # "zero" THEN Returned(FALSE, "pip upgrade failed")
    ELSE IF hasRequirements /\ req = "raise" THEN Raised
    ELSE IF hasRequirements /\ req # "zero"
         THEN Returned(FALSE, "requirements install failed")
    ELSE IF edit = "raise" THEN Raised
    ELSE IF edit # "zero" THEN Returned(FALSE, "pip install -e . failed")
    ELSE Returned(TRUE, "")

\* a badge writer that leaves an existing badge file alone
write_badge_keep(b, repo_url, ok) ==
    IF b[normalize_repo_slug(repo_url)] # "absent" THEN b
    ELSE [b EXCEPT ![normalize_repo_slug(repo_url)] =
                        IF ok THEN "verified" ELSE "failed"]

write_badge(b, repo_url, ok) ==
    [b EXCEPT ![normalize_repo_slug(repo_url)] =
                  IF ok THEN "verified" ELSE "failed"]

\* the entry of calls for one stage or badge call of the current attempt
Call(stage, ok) == [stage |-> stage, ok |-> ok]

Logged(stage, ok) == [calls EXCEPT ![Len(calls)] = Append(@, Call(stage, ok))]

\* the URL of the attempt in progress
repo_url == repos[idx + 1]

Init ==
    /\ repos \in SeqsUpTo(UrlPool, MaxRepos)
    /\ badges \in [Slugs -> BadgeContent]
    /\ results = <<>>
    /\ idx = 0
    /\ pc = "for"
    /\ result = NoResult
    /\ exc = "none"
    /\ workspaces = {}
    /\ calls = <<>>
    /\ payload = <<>>
    /\ exitCode = -1
    /\ surl = <<>>
    /\ sslug = <<>>
    /\ spc = -2

\* for repo_url in repos: with tempfile.TemporaryDirectory(...) as tmp
EnterWith ==
    /\ pc = "for"
    /\ idx < Len(repos)
    /\ workspaces' = workspaces \cup {idx + 1}
    /\ calls' = Append(calls, <<>>)
    /\ pc' = "clone"
    /\ UNCHANGED <<repos, badges, results, idx, result, exc, payload, exitCode, slugVars>>

\* a stage returned (ok, reason) or raised: go on, return a result, or unwind
StageExit(stage, out, caught, caughtReason, next) ==
    /\ calls' = Logged(stage, ~out.raised /\ out.ok)
    /\ IF out.raised /\ ~caught
       THEN /\ exc' = stage
            /\ pc' = "raising"
            /\ UNCHANGED result
       ELSE IF out.raised
       THEN /\ result' = RepoResult(repo_url, FALSE, caughtReason, <<"None">>)
            /\ pc' = "returned"
            /\ UNCHANGED exc
       ELSE IF ~out.ok
       THEN /\ result' = RepoResult(repo_url, FALSE, out.reason, <<"None">>)
            /\ pc' = "returned"
            /\ UNCHANGED exc
       ELSE /\ pc' = next
            /\ UNCHANGED <<result, exc>>
    /\ UNCHANGED <<repos, badges, results, idx, workspaces, payload, exitCode, slugVars>>

\* code, out, err = run(["git", "clone", ...]); if code != 0: return ...
Clone ==
    /\ pc = "clone"
    /\ \E code \in RunOutcomes :
          StageExit("clone",
                    IF code = "raise" THEN Raised
                    ELSE IF code # "zero" THEN Returned(FALSE, "git clone failed")
                    ELSE Returned(TRUE, ""),
                    FALSE, "", "pyproject")

\* a manifest check whose failure does not end the attempt
EnsurePyprojectNoReturn ==
    /\ pc = "pyproject"
    /\ \E exists \in BOOLEAN :
          /\ calls' = Logged("ensure_pyproject", ensure_pyproject(exists).ok)
          /\ pc' = "readme"
    /\ UNCHANGED <<repos, badges, results, idx, result, exc, workspaces,
                   payload, exitCode, slugVars>>

EnsurePyproject ==
    /\ pc = "pyproject"
    /\ \E exists \in BOOLEAN :
          StageExit("ensure_pyproject", ensure_pyproject(exists), FALSE, "", "readme")

EnsureReadme ==
    /\ pc = "readme"
    /\ \E exists, readFails, hasInstall, hasUsage \in BOOLEAN :
          StageExit("ensure_readme",
                    ensure_readme(exists, readFails, hasInstall, hasUsage),
                    TRUE, "README check error", "venv")

CreateVenv ==
    /\ pc = "venv"
    /\ \E out \in RunOutcomes :
          StageExit("create_venv", create_venv(out), FALSE, "", "install")

InstallEditable ==
    /\ pc = "install"
    /\ \E pip, req, edit \in RunOutcomes, hasRequirements \in BOOLEAN :
          StageExit("install_editable",
                    install_editable(pip, hasRequirements, req, edit),
                    TRUE, "pip install error", "badge")

\* badge_path = write_badge(badges_dir, repo_url, True); return RepoResult(...)
VerifiedBadge ==
    /\ pc = "badge"
    /\ badges' = write_badge(badges, repo_url, TRUE)
    /\ calls' = Logged("write_badge", TRUE)
    /\ result' = RepoResult(repo_url, TRUE, "ok", normalize_repo_slug(repo_url))
    /\ pc' = "returned"
    /\ UNCHANGED <<repos, results, idx, exc, workspaces, payload, exitCode, slugVars>>

\* a driver that appends the result without writing the failed badge
RecordResultNoBadge ==
    /\ pc = "returned"
    /\ results' = Append(results, result)
    /\ idx' = idx + 1
    /\ pc' = "exit_with"
    /\ UNCHANGED <<repos, badges, calls, result, exc, workspaces, payload, exitCode, slugVars>>

\* if not result.ok: write_badge(args.badges, repo_url, False)
\* results.append(result)
RecordResult ==
    /\ pc = "returned"
    /\ IF ~result.ok
       THEN /\ badges' = write_badge(badges, repo_url, FALSE)
            /\ calls' = Logged("write_badge", FALSE)
       ELSE UNCHANGED <<badges, calls>>
    /\ results' = Append(results, result)
    /\ idx' = idx + 1
    /\ pc' = "exit_with"
    /\ UNCHANGED <<repos, result, exc, workspaces, payload, exitCode, slugVars>>

\* a scope exit that removes the tree only when the body ended normally
ExitWithLeak ==
    /\ pc \in {"exit_with", "raising"}
    /\ workspaces' = IF pc = "raising" THEN workspaces ELSE workspaces \ {Len(calls)}
    /\ pc' = IF pc = "raising" THEN "aborted" ELSE "for"
    /\ UNCHANGED <<repos, badges, results, idx, result, exc, calls, payload, exitCode, slugVars>>

\* TemporaryDirectory.__exit__: the tree is removed when the with body is
\* left, by falling off its end or by an exception, which then leaves main
ExitWith ==
    /\ pc \in {"exit_with", "raising"}
    /\ workspaces' = workspaces \ {Len(calls)}
    /\ pc' = IF pc = "raising" THEN "aborted" ELSE "for"
    /\ UNCHANGED <<repos, badges, results, idx, result, exc, calls, payload, exitCode, slugVars>>

RECURSIVE CountOk(_)
\* sum(1 for r in results if r.ok)
CountOk(rs) ==
    IF rs = <<>> THEN 0
    ELSE (IF Head(rs).ok THEN 1 ELSE 0) + CountOk(Tail(rs))

RECURSIVE FailedEntries(_)
\* [{"url": r.url, "reason": r.reason} for r in results if not r.ok]
FailedEntries(rs) ==
    IF rs = <<>> THEN <<>>
    ELSE (IF Head(rs).ok THEN <<>>
          ELSE <<[url |-> Head(rs).url, reason |-> Head(rs).reason]>>)
         \o FailedEntries(Tail(rs))

\* a payload whose failed list has an entry for every result
WriteResultsAllListed ==
    /\ pc = "for"
    /\ idx = Len(repos)
    /\ payload' = [total  |-> Len(results),
                   passed |-> CountOk(results),
                   failed |-> [k \in 1..Len(results) |->
                                 [url |-> results[k].url, reason |-> results[k].reason]]]
    /\ pc' = "written"
    /\ UNCHANGED <<repos, badges, results, idx, result, exc, workspaces, calls, exitCode, slugVars>>

\* the loop is over: payload = {...}; args.results.write_text(...)
WriteResults ==
    /\ pc = "for"
    /\ idx = Len(repos)
    /\ payload' = [total  |-> Len(results),
                   passed |-> CountOk(results),
                   failed |-> FailedEntries(results)]
    /\ pc' = "written"
    /\ UNCHANGED <<repos, badges, results, idx, result, exc, workspaces, calls, exitCode, slugVars>>

\* a return value that is 0 as soon as one repository passed
ReturnAny ==
    /\ pc = "written"
    /\ exitCode' = IF \E k \in 1..Len(results) : results[k].ok THEN 0 ELSE 1
    /\ pc' = "done"
    /\ UNCHANGED <<repos, badges, results, idx, result, exc, workspaces, calls, payload, slugVars>>

\* the report and the status lines change nothing modelled here;
\* return 0 if all(r.ok for r in results) else 1
Return ==
    /\ pc = "written"
    /\ exitCode' = IF \A k \in 1..Len(results) : results[k].ok THEN 0 ELSE 1
    /\ pc' = "done"
    /\ UNCHANGED <<repos, badges, results, idx, result, exc, workspaces, calls, payload, slugVars>>

Next ==
    \/ EnterWith
    \/ Clone
    \/ EnsurePyproject
    \/ EnsureReadme
    \/ CreateVenv
    \/ InstallEditable
    \/ VerifiedBadge
    \/ RecordResult
    \/ ExitWith
    \/ WriteResults
    \/ Return

Spec == Init /\ [][Next]_vars

----------------------------------------------------------------------------
(* Properties *)

Message(ok) == IF ok THEN "verified" ELSE "failed"

\* main has left the loop normally
LoopOver == pc \in {"written", "done"}

\* verify_repo or the rest of the with body is running
InAttempt ==
    pc \in {"clone", "pyproject", "readme", "venv", "install", "badge",
            "returned", "exit_with", "raising"}

ResultSlug(k) == normalize_repo_slug(results[k].url)

\* the n-th smallest element of a set of numbers
Nth(S, n) == CHOOSE x \in S : Cardinality({y \in S : y <= x}) = n

BadgeWrites(k) ==
    Cardinality({i \in 1..Len(calls[k]) : calls[k][i].stage = "write_badge"})

StageOrder ==
    <<"clone", "ensure_pyproject", "ensure_readme", "create_venv", "install_editable">>

StageCalls(k) == SelectSeq(calls[k], LAMBDA c : c.stage # "write_badge")

InstallPhase == {"create_venv", "install_editable"}

C2_InstallExceptionsCaught == exc \notin InstallPhase

(* C3: the stages of an attempt run in the order clone, ensure_pyproject,
   ensure_readme, create_venv, install_editable, each only after all earlier
   ones succeeded; a missing pyproject.toml ends the attempt after the
   manifest check, an incomplete README after the README check. *)
C3_StageOrderShortCircuit ==
    /\ \A k \in 1..Len(calls) :
          LET st == StageCalls(k)
          IN  /\ Len(st) <= Len(StageOrder)
              /\ \A i \in 1..Len(st) :
                    /\ st[i].stage = StageOrder[i]
                    /\ i < Len(st) => st[i].ok
              /\ \A i \in 1..Len(calls[k]) :
                    calls[k][i].stage = "write_badge" => i = Len(calls[k])
    /\ \A k \in 1..Len(results) :
          /\ results[k].reason = "missing pyproject.toml"
                => Len(StageCalls(k)) = 2
          /\ results[k].reason = "README.md must include install and usage"
                => Len(StageCalls(k)) = 3

C3_Witness ==
    /\ Len(results) = 2
    /\ results[1].reason = "missing pyproject.toml"
    /\ results[2].reason = "README.md must include install and usage"
    /\ Len(calls[1]) = 3
    /\ Len(calls[2]) = 4

(* C4: main attempts every repository: whenever main is past its loop, by
   leaving it or by being thrown out of it, results holds one RepoResult per
   URL of repos, in the same order and with the same url. *)
C4_EveryRepositoryAttempted ==
    pc \in {"written", "done", "aborted"} =>
        /\ Len(results) = Len(repos)
        /\ \A k \in 1..Len(repos) : results[k].url = repos[k]

(* C5: in the payload, passed is the number of results with ok, total is
   passed plus the length of failed, and failed lists the url and reason of
   exactly the results without ok, in input order. *)
C5_PayloadCounts ==
    LoopOver =>
        LET failing == {k \in 1..Len(results) : ~results[k].ok}
            passing == {k \in 1..Len(results) : results[k].ok}
        IN  /\ payload.passed = Cardinality(passing)
            /\ payload.total = payload.passed + Len(payload.failed)
            /\ Len(payload.failed) = Cardinality(failing)
            /\ \A n \in 1..Cardinality(failing) :
                  /\ payload.failed[n].url = results[Nth(failing, n)].url
                  /\ payload.failed[n].reason = results[Nth(failing, n)].reason

C5_Witness ==
    /\ pc = "written"
    /\ Len(results) = 2
    /\ ~results[1].ok
    /\ results[2].ok
    /\ payload.total = 2
    /\ payload.passed = 1
    /\ Len(payload.failed) = 1

(* C6: main returns 0 exactly when every result has ok (the empty list
   included), and 1 otherwise; equivalently 0 exactly when the failed list
   of the payload is empty. *)
C6_ExitCode ==
    pc = "done" =>
        /\ exitCode \in {0, 1}
        /\ exitCode = 0 <=> \A k \in 1..Len(results) : results[k].ok
        /\ exitCode = 0 <=> payload.failed = <<>>

C6_Witness ==
    /\ pc = "done"
    /\ exitCode = 1
    /\ \E k \in 1..Len(results) : results[k].ok

(* C8: every attempt of main's loop that is over has called write_badge
   exactly once, and no attempt calls it more than once. *)
C8_OneBadgeWritePerAttempt ==
    \A k \in 1..Len(calls) :
        /\ BadgeWrites(k) <= 1
        /\ (k < Len(calls) \/ ~InAttempt \/ pc = "exit_with") => BadgeWrites(k) = 1

(* C9: at most one workspace exists; while an attempt runs it is that
   attempt's workspace; between attempts, after the loop and after an
   exception left main, none exists. *)
C9_WorkspaceScoped ==
    /\ Cardinality(workspaces) <= 1
    /\ InAttempt => workspaces = {Len(calls)}
    /\ ~InAttempt => workspaces = {}

C9_Witness ==
    /\ pc = "aborted"
    /\ Len(calls) = 2
    /\ Len(results) = 1
    /\ workspaces = {}

(* C10: once the loop is over, the badge of every slug written in the run
   carries the message of the last result, in input order, with that slug. *)
C10_LastWriterWins ==
    LoopOver =>
        \A s \in {ResultSlug(k) : k \in 1..Len(results)} :
            LET last == SetMax({k \in 1..Len(results) : ResultSlug(k) = s})
            IN  badges[s] = Message(results[last].ok)

C10_Witness ==
    /\ LoopOver
    /\ Len(results) = 2
    /\ results[1].url # results[2].url
    /\ ResultSlug(1) = ResultSlug(2)
    /\ results[1].ok
    /\ ~results[2].ok
    /\ badges[ResultSlug(2)] = "failed"

----------------------------------------------------------------------------
(* Properties of normalize_repo_slug *)

Slashes(s) == {i \in 1..Len(s) : s[i] = "/"}

\* s ends in github.com/<owner>/<name>, owner and name non-empty, no "/"
Recognizable(s) ==
    /\ Cardinality(Slashes(s)) >= 2
    /\ LET s2 == SetMax(Slashes(s))
           s1 == SetMax(Slashes(s) \ {s2})
       IN  /\ s2 < Len(s)
           /\ s1 + 1 < s2
           /\ HasAt(s, s1 - Len(GithubComSlash) + 1, GithubComSlash)

EndsWithDotGit(s) == HasAt(s, Len(s) - Len(DotGit) + 1, DotGit)

\* owner__repo, the name losing one trailing .git unless it is .git itself
OwnerRepoSlug(s) ==
    LET s2 == SetMax(Slashes(s))
        s1 == SetMax(Slashes(s) \ {s2})
        name == SubSeq(s, s2 + 1, Len(s))
        repo == IF EndsWithDotGit(name) /\ Len(name) > Len(DotGit)
                THEN SubSeq(name, 1, Len(name) - Len(DotGit))
                ELSE name
    IN  SubSeq(s, s1 + 1, s2 - 1) \o <<"_", "_">> \o repo

\* every character outside the class replaced by "_", one for one
CharwiseSlug(s) ==
    [i \in 1..Len(s) |-> IF s[i] \in SlugChars THEN s[i] ELSE "_"]

\* every maximal run of characters outside the class replaced by one "_"
RunwiseSlug(s) ==
    LET kept == {i \in 1..Len(s) :
                    s[i] \in SlugChars \/ i = 1 \/ s[i - 1] \in SlugChars}
    IN  [n \in 1..Cardinality(kept) |->
            IF s[Nth(kept, n)] \in SlugChars THEN s[Nth(kept, n)] ELSE "_"]

(* C7 as stated: the slug is owner__repo for a recognizable URL, and
   otherwise the URL with every single character outside [A-Za-z0-9._-]
   replaced by one "_". *)
C7_SlugCharwise ==
    spc = -1 =>
        sslug = IF Recognizable(surl) THEN OwnerRepoSlug(surl) ELSE CharwiseSlug(surl)

(* C7 amended: the slug is owner__repo for a URL ending in
   github.com/owner/repo or github.com/owner/repo.git, the two forms giving
   the same slug, and otherwise the URL with every maximal run of characters
   outside [A-Za-z0-9._-] replaced by one "_". *)
C7_SlugRunwise ==
    spc = -1 =>
        /\ sslug = IF Recognizable(surl) THEN OwnerRepoSlug(surl) ELSE RunwiseSlug(surl)
        /\ (Recognizable(surl) /\ ~EndsWithDotGit(surl))
              => normalize_repo_slug(surl \o DotGit) = sslug

C7_Witness ==
    /\ spc = -1
    /\ ~Recognizable(surl)
    /\ \E i \in 1..(Len(surl) - 1) :
          surl[i] \notin SlugChars /\ surl[i + 1] \notin SlugChars
    /\ Len(sslug) < Len(surl)

====
